---- MODULE Spec2Model ----
(***************************************************************************)
(* Model of src/components/transcript-generator.js: the record-extraction, *)
(* session-grouping and year-pairing pipeline of handleGenerateTranscript.  *)
(*                                                                         *)
(* Strings are sequences of tokens.  A token is one character (a digit,    *)
(* " ", "-", ":", "I", "i") or one word whose inner characters no rule of  *)
(* the program looks into ("Aug", "Sem", "Math", a footer phrase).         *)
(* A cell value of the worksheet is a record [t, v, n, m]:                 *)
(*   t = "str"  : the string v; m > 0 when the Date parser reads v as a     *)
(*                date in month m of the year n                            *)
(*   t = "num"  : the number n                                             *)
(*   t = "date" : a Date object in month m (1..12) of the year n           *)
(* A JS object is the sequence of its [k, v] properties in the order       *)
(* Object.keys lists them.                                                 *)
(***************************************************************************)
EXTENDS Integers, Sequences, FiniteSets, TLC

\* ------------------------------------------------------------------ bounds
MaxRows == 3

MaxGap == 2

MaxText == 5

\* ---------------------------------------------------------------- strings
EmptyStr == <<>>

DigitToks == <<"0", "1", "2", "3", "4", "5", "6", "7", "8", "9">>

IsDigit(t) == \E i \in 1..10 : DigitToks[i] = t

DigitVal(t) == (CHOOSE i \in 1..10 : DigitToks[i] = t) - 1

\* \s of a regular expression and the white space trim removes
IsSpace(t) == t \in {" ", "\n"}

\* a line terminator: the one white space that `.` does not match
IsLineTerminator(t) == t = "\n"

CapsToks == <<"Jan", "Feb", "Mar", "Apr", "May", "Jun", "Jul", "Aug", "Sep",
              "Oct", "Nov", "Dec", "AUG", "JAN", "Sem", "SEM", "I",
              "Total Number of Semester Hours Earned",
              "Number of Semester Hours Required for Graduation",
              "Cumulative Grade Point Average",
              "CUMULATIVE GRADE POINT AVERAGE">>

LowsToks == <<"jan", "feb", "mar", "apr", "may", "jun", "jul", "aug", "sep",
              "oct", "nov", "dec", "aug", "jan", "sem", "sem", "i",
              "total number of semester hours earned",
              "number of semester hours required for graduation",
              "cumulative grade point average",
              "cumulative grade point average">>

\* String.prototype.toLowerCase, token by token
LowerTok(t) ==
    IF \E i \in 1..Len(CapsToks) : CapsToks[i] = t
    THEN LowsToks[CHOOSE i \in 1..Len(CapsToks) : CapsToks[i] = t]
    ELSE t

toLowerCase(s) == [i \in 1..Len(s) |-> LowerTok(s[i])]

\* String.prototype.trim
trim(s) ==
    IF \A i \in 1..Len(s) : IsSpace(s[i]) THEN EmptyStr
    ELSE LET a == CHOOSE i \in 1..Len(s) :
                    ~IsSpace(s[i]) /\ \A j \in 1..(i - 1) : IsSpace(s[j])
             b == CHOOSE i \in 1..Len(s) :
                    ~IsSpace(s[i]) /\ \A j \in (i + 1)..Len(s) : IsSpace(s[j])
         IN  SubSeq(s, a, b)

\* String.prototype.startsWith
startsWith(s, p) == Len(s) >= Len(p) /\ SubSeq(s, 1, Len(p)) = p

RECURSIVE DigitsToNat(_)
DigitsToNat(ds) ==
    IF ds = <<>> THEN 0
    ELSE 10 * DigitsToNat(SubSeq(ds, 1, Len(ds) - 1)) + DigitVal(ds[Len(ds)])

RECURSIVE NatToDigits(_)
NatToDigits(n) ==
    IF n < 10 THEN <<DigitToks[n + 1]>>
    ELSE NatToDigits(n \div 10) \o <<DigitToks[(n % 10) + 1]>>

\* String(n) / Number.prototype.toString for an integer n
NumToString(n) == IF n < 0 THEN <<"-">> \o NatToDigits(0 - n) ELSE NatToDigits(n)

\* parseInt(s, 10): leading whitespace, an optional sign, then the longest
\* run of digits; [nan |-> TRUE] when there is no digit there.
parseInt(s) ==
    LET t    == IF \A i \in 1..Len(s) : IsSpace(s[i]) THEN EmptyStr
                ELSE SubSeq(s, CHOOSE i \in 1..Len(s) :
                                 ~IsSpace(s[i]) /\ \A j \in 1..(i - 1) : IsSpace(s[j]),
                            Len(s))
        neg  == Len(t) > 0 /\ t[1] = "-"
        u    == IF Len(t) > 0 /\ t[1] \in {"-", "+"} THEN Tail(t) ELSE t
        k    == IF \A i \in 1..Len(u) : IsDigit(u[i]) THEN Len(u)
                ELSE (CHOOSE i \in 1..Len(u) :
                        ~IsDigit(u[i]) /\ \A j \in 1..(i - 1) : IsDigit(u[j])) - 1
        mag  == DigitsToNat(SubSeq(u, 1, k))
    IN  IF k = 0 THEN [nan |-> TRUE, n |-> 0]
        ELSE [nan |-> FALSE, n |-> IF neg THEN 0 - mag ELSE mag]

\* ------------------------------------------------------------ cell values
StrCell(s) == [t |-> "str", v |-> s, n |-> 0, m |-> 0]

NumCell(k) == [t |-> "num", v |-> EmptyStr, n |-> k, m |-> 0]

DateCell(mon, yr) == [t |-> "date", v |-> EmptyStr, n |-> yr, m |-> mon]

\* a string the Date parser accepts, such as "2018-03-01"
DateText(s, mon, yr) == [t |-> "str", v |-> s, n |-> yr, m |-> mon]

EmptyCell == StrCell(EmptyStr)

MonthAbbr == <<"Jan", "Feb", "Mar", "Apr", "May", "Jun", "Jul", "Aug", "Sep",
               "Oct", "Nov", "Dec">>

\* JS truthiness of a cell value: "" and 0 are falsy
Truthy(c) ==
    CASE c.t = "str" -> c.v # EmptyStr
      [] c.t = "num" -> c.n # 0
      [] OTHER       -> TRUE

\* x || ""
OrEmpty(c) == IF Truthy(c) THEN c ELSE EmptyCell

\* String(x): the string itself, the decimal form of a number, the text
\* form of a Date (non-empty; only its month and year are kept)
String(c) ==
    CASE c.t = "str" -> c.v
      [] c.t = "num" -> NumToString(c.n)
      [] OTHER       -> <<MonthAbbr[c.m], " ">> \o NumToString(c.n)

\* ------------------------------------------------------------- JS objects
\* A property key that is a canonical array index ("0", "5", "17"; not
\* "05", not "-1"): Object.keys lists these first, in ascending order.
IsIndexKey(k) ==
    /\ Len(k) > 0
    /\ \A i \in 1..Len(k) : IsDigit(k[i])
    /\ (Len(k) = 1 \/ k[1] # "0")

ObjKeys(o) == [i \in 1..Len(o) |-> o[i].k]

ObjHas(o, key) == \E i \in 1..Len(o) : o[i].k = key

ObjGet(o, key) == o[CHOOSE i \in 1..Len(o) : o[i].k = key].v

\* o[key] = val: an existing property keeps its place; a new index key goes
\* before the first property that is not an index key or is a larger index;
\* any other new key goes last.
ObjSet(o, key, val) ==
    IF ObjHas(o, key)
    THEN [i \in 1..Len(o) |-> IF o[i].k = key THEN [k |-> key, v |-> val] ELSE o[i]]
    ELSE IF IsIndexKey(key)
         THEN LET after(i) == ~IsIndexKey(o[i].k)
                              \/ DigitsToNat(o[i].k) > DigitsToNat(key)
                  p == IF \E i \in 1..Len(o) : after(i)
                       THEN CHOOSE i \in 1..Len(o) :
                              after(i) /\ \A j \in 1..(i - 1) : ~after(j)
                       ELSE Len(o) + 1
              IN  SubSeq(o, 1, p - 1) \o <<[k |-> key, v |-> val]>>
                    \o SubSeq(o, p, Len(o))
         ELSE Append(o, [k |-> key, v |-> val])

\* a sort with the comparator reversed, (a, b) => b - a
RECURSIVE SortNumDescending(_)
SortNumDescending(s) ==
    IF s = <<>> THEN <<>>
    ELSE LET r == SortNumDescending(SubSeq(s, 1, Len(s) - 1))
             x == s[Len(s)]
             p == Cardinality({i \in 1..Len(r) : r[i] >= x})
         IN  SubSeq(r, 1, p) \o <<x>> \o SubSeq(r, p + 1, Len(r))

\* Array.prototype.sort((a, b) => a - b) on numbers (stable insertion)
RECURSIVE SortNum(_)
SortNum(s) ==
    IF s = <<>> THEN <<>>
    ELSE LET r == SortNum(SubSeq(s, 1, Len(s) - 1))
             x == s[Len(s)]
             p == Cardinality({i \in 1..Len(r) : r[i] <= x})
         IN  SubSeq(r, 1, p) \o <<x>> \o SubSeq(r, p + 1, Len(r))

\* --------------------------------------------------------- pure functions
\* splitCatNoAndCourse: /^(\d+)\s+(.*)$/ on String(value || "").trim()
splitCatNoAndCourse(value) ==
    LET strVal == trim(String(OrEmpty(value)))
        nd == IF \A i \in 1..Len(strVal) : IsDigit(strVal[i]) THEN Len(strVal)
              ELSE (CHOOSE i \in 1..Len(strVal) :
                      ~IsDigit(strVal[i]) /\ \A j \in 1..(i - 1) : IsDigit(strVal[j])) - 1
        rest == SubSeq(strVal, nd + 1, Len(strVal))
    IN  IF /\ nd >= 1 /\ nd < Len(strVal) /\ IsSpace(strVal[nd + 1])
           /\ \A i \in 1..Len(trim(rest)) : ~IsLineTerminator(trim(rest)[i])
        THEN <<SubSeq(strVal, 1, nd), trim(rest)>>
        ELSE <<EmptyStr, strVal>>

\* The value new Date(value) denotes, or an invalid date: a Date object is
\* itself, a number is a time near the epoch, a string is the date the Date
\* parser reads in it, if any ("Aug-18 Sem I" and free text are rejected).
NewDate(value) ==
    CASE value.t = "date" -> [valid |-> TRUE, m |-> value.m, n |-> value.n]
      [] value.t = "num"  -> [valid |-> TRUE, m |-> 1, n |-> 1970]
      [] value.m > 0      -> [valid |-> TRUE, m |-> value.m, n |-> value.n]
      [] OTHER            -> [valid |-> FALSE, m |-> 0, n |-> 0]

\* String.prototype.slice(-2)
SliceLast2(s) == IF Len(s) <= 2 THEN s ELSE SubSeq(s, Len(s) - 1, Len(s))

\* formatSession with "Jul" in the list of Sem II months
formatSessionJulySpring(value) ==
    LET date == NewDate(value)
    IN  IF ~date.valid THEN String(OrEmpty(value))
        ELSE LET monthAbbr == MonthAbbr[date.m]
                 twoDigitYear == SliceLast2(NumToString(date.n))
                 semester == IF monthAbbr \in {"Jan", "Feb", "Mar", "Apr", "May", "Jun",
                                               "Jul"}
                             THEN <<"Sem", " ", "I", "I">>
                             ELSE <<"Sem", " ", "I">>
             IN  <<monthAbbr, "-">> \o twoDigitYear \o <<" ">> \o semester

formatSession(value) ==
    LET date == NewDate(value)
    IN  IF ~date.valid THEN String(OrEmpty(value))
        ELSE LET monthAbbr == MonthAbbr[date.m]
                 twoDigitYear == SliceLast2(NumToString(date.n))
                 semester == IF monthAbbr \in {"Jan", "Feb", "Mar", "Apr", "May", "Jun"}
                             THEN <<"Sem", " ", "I", "I">>
                             ELSE <<"Sem", " ", "I">>
             IN  <<monthAbbr, "-">> \o twoDigitYear \o <<" ">> \o semester

SemIMonths == {"aug", "sep", "oct", "nov", "dec"}

SemIIMonths == {"jan", "feb", "mar", "apr", "may", "jun"}

\* The rest of /...-(\d{2,4})\s+Sem\s*I/i or /...\s+Sem\s*II/i from position
\* j (just after the digits): one or more spaces, "Sem", any spaces, tail.
MatchSemTail(s, j, tail) ==
    \E a \in 1..Len(s) : \E b \in 0..Len(s) :
        /\ j + a + b + Len(tail) <= Len(s)
        /\ \A x \in j..(j + a - 1) : IsSpace(s[x])
        /\ LowerTok(s[j + a]) = "sem"
        /\ \A x \in (j + a + 1)..(j + a + b) : IsSpace(s[x])
        /\ \A x \in 1..Len(tail) : LowerTok(s[j + a + b + x]) = tail[x]

\* A match of /(months)-(\d{2,4})\s+Sem\s*tail/i that starts at position i
\* and captures k digits
MatchSemAt(s, i, k, months, tail) ==
    /\ i + 1 + k <= Len(s)
    /\ LowerTok(s[i]) \in months
    /\ s[i + 1] = "-"
    /\ \A x \in (i + 2)..(i + 1 + k) : IsDigit(s[x])
    /\ MatchSemTail(s, i + 2 + k, tail)

\* RegExp.prototype.test
RegexTest(s, months, tail) ==
    \E i \in 1..Len(s) : \E k \in 2..4 : MatchSemAt(s, i, k, months, tail)

\* RegExp.prototype.exec, capture group 2: the leftmost match, digits greedy
RegexYear(s, months, tail) ==
    LET i == CHOOSE x \in 1..Len(s) :
                /\ \E k \in 2..4 : MatchSemAt(s, x, k, months, tail)
                /\ \A y \in 1..(x - 1) : \A k \in 2..4 : ~MatchSemAt(s, y, k, months, tail)
        k == CHOOSE c \in 2..4 :
                /\ MatchSemAt(s, i, c, months, tail)
                /\ \A d \in (c + 1)..4 : ~MatchSemAt(s, i, d, months, tail)
    IN  SubSeq(s, i + 2, i + 1 + k)

semIRegex(s) == RegexTest(s, SemIMonths, <<"i">>)

semIIRegex(s) == RegexTest(s, SemIIMonths, <<"i", "i">>)

Unknown == <<"Unknown">>

\* getAcademicYear without the move of a spring term to the previous year
getAcademicYearSameYear(sessionLabel) ==
    IF semIRegex(sessionLabel)
    THEN [year |-> RegexYear(sessionLabel, SemIMonths, <<"i">>), matched |-> "SemI"]
    ELSE IF semIIRegex(sessionLabel)
    THEN [year |-> RegexYear(sessionLabel, SemIIMonths, <<"i", "i">>),
          matched |-> "SemII"]
    ELSE [year |-> Unknown, matched |-> "null"]

getAcademicYear(sessionLabel) ==
    IF semIRegex(sessionLabel)
    THEN [year |-> RegexYear(sessionLabel, SemIMonths, <<"i">>), matched |-> "SemI"]
    ELSE IF semIIRegex(sessionLabel)
    THEN [year |-> NumToString(
                     parseInt(RegexYear(sessionLabel, SemIIMonths, <<"i", "i">>)).n - 1),
          matched |-> "SemII"]
    ELSE [year |-> Unknown, matched |-> "null"]

\* getColumnLines: records.map(r => String(r[columnKey] || "").trim()).filter(Boolean)
NonEmptyStr(s) == s # EmptyStr

getColumnLines(records, columnKey) ==
    SelectSeq([i \in 1..Len(records) |-> trim(String(OrEmpty(records[i][columnKey])))],
              NonEmptyStr)

\* multiLineCell(lines): the cell's paragraphs, one per line
multiLineCell(lines) == lines

\* ------------------------------------------------------------------ state
VARIABLES
    sheet,              \* the rows eachRow delivers, row number = position
    pc,                 \* where handleGenerateTranscript stands
    rowsData,           \* step 2: the extracted rows
    processed,          \* step 3: the formatted rows
    gi,                 \* index of the next row of processed.forEach
    groupedData,        \* step 4: session label -> course records
    currentSessionKey,  \* step 4: [isNull, s]
    academicYears,      \* step 5: year -> (session label -> course records)
    sortedYears,        \* the year keys the pairing loop walks through
    yi,                 \* index of the next year of for (yearStr of sortedYears)
    leftKeys,           \* Sem I labels of the year not yet paired
    rightKeys,          \* Sem II labels of the year not yet paired
    rows,               \* the table rows built so far
    docSaved,           \* saveAs has been called
    fnIn,               \* the parts of a label given to getAcademicYear alone
    fnOut,              \* what getAcademicYear returned for it
    variant,            \* which of the two TranscriptGenerator components runs
    worksheets,         \* workbook.worksheets.length of the loaded workbook
    error               \* what the catch block caught, "none" before that

vars == <<sheet, pc, rowsData, processed, gi, groupedData, currentSessionKey,
          academicYears, sortedYears, yi, leftKeys, rightKeys, rows, docSaved,
          fnIn, fnOut, variant, worksheets, error>>

Null == [isNull |-> TRUE, s |-> EmptyStr]

Key(s) == [isNull |-> FALSE, s |-> s]

RawRow(sem, catAndCourse, grade, semHrs) ==
    [sem |-> sem, catAndCourse |-> catAndCourse, grade |-> grade, semHrs |-> semHrs]

\* ----------------------------------------------------------------- inputs
Label(mon, yy, sem) == <<mon, "-">> \o yy \o <<" ", "Sem", " ">> \o sem

HeaderRow == RawRow(StrCell(<<"Sem.">>), StrCell(<<"Cat.No. And Course Name">>),
                    StrCell(<<"Grade">>), StrCell(<<"Sem.Hrs">>))

BlankRow == RawRow(EmptyCell, EmptyCell, EmptyCell, EmptyCell)

MathCourse == StrCell(<<"1", "0", "1", " ", "Math">>)

BioCourse == StrCell(<<"Bio">>)

GradeA == StrCell(<<"A">>)

Hours3 == NumCell(3)

\* session cells of the rows that exercise classification and pairing
PairSessions ==
    { EmptyCell,
      DateCell(8, 2018), DateCell(1, 2019), DateCell(8, 2019),
      DateCell(8, 2005), DateCell(1, 2006), DateCell(7, 2018),
      StrCell(Label("Sep", <<"1", "8">>, <<"I">>)),
      StrCell(Label("Feb", <<"1", "9">>, <<"I", "I">>)) }

PairRows ==
    { RawRow(s, MathCourse, GradeA, Hours3) : s \in PairSessions }
      \cup { BlankRow, RawRow(DateCell(8, 2018), BioCourse, GradeA, EmptyCell) }

\* course cells that begin with one of the footer texts
FooterTotal == StrCell(<<"Total Number of Semester Hours Earned", ":", " ", "6">>)

FooterRequired == StrCell(<<" ", "number of semester hours required for graduation">>)

FooterAverage == StrCell(<<"1", "2", " ", "CUMULATIVE GRADE POINT AVERAGE">>)

\* the rows that exercise grouping and the footer filter
GroupRows ==
    { RawRow(DateCell(8, 2018), MathCourse, GradeA, Hours3),
      RawRow(EmptyCell, MathCourse, GradeA, Hours3),
      RawRow(DateCell(8, 2018), FooterTotal, EmptyCell, Hours3),
      RawRow(EmptyCell, FooterRequired, EmptyCell, Hours3),
      RawRow(EmptyCell, FooterAverage, GradeA, EmptyCell),
      BlankRow,
      RawRow(DateCell(8, 2018), EmptyCell, EmptyCell, EmptyCell),
      RawRow(EmptyCell, BioCourse, EmptyCell, NumCell(0)),
      RawRow(DateCell(8, 2005), MathCourse, GradeA, Hours3),
      RawRow(StrCell(<<"NoSession">>), BioCourse, EmptyCell, Hours3) }

SeqsUpTo(S, n) == UNION { [1..k -> S] : k \in 0..n }

Sheets(S) == { <<HeaderRow, HeaderRow>> \o d : d \in SeqsUpTo(S, MaxRows) }

NoLabel == [pre |-> <<>>, mon |-> "", digits |-> <<>>, gap1 |-> 0, word |-> "",
            gap2 |-> 0, tail |-> <<>>, post |-> <<>>]

NoResult == [year |-> <<>>, matched |-> "pending"]

PipelineStart ==
    /\ rowsData = <<>>
    /\ processed = <<>>
    /\ gi = 1
    /\ groupedData = <<>>
    /\ currentSessionKey = Null
    /\ academicYears = <<>>
    /\ sortedYears = <<>>
    /\ yi = 1
    /\ leftKeys = <<>>
    /\ rightKeys = <<>>
    /\ rows = <<>>
    /\ docSaved = FALSE
    /\ error = "none"

\* the two components of the file: without and with the worksheet check
Variants == {"basic", "xlsConverting"}

\* a workbook with a first worksheet, or one with no worksheet at all
Workbooks(S) ==
    [worksheets : {1}, sheet : Sheets(S)] \cup [worksheets : {0}, sheet : {<<>>}]

InitWith(S) ==
    /\ variant \in Variants
    /\ \E wb \in Workbooks(S) : worksheets = wb.worksheets /\ sheet = wb.sheet
    /\ pc = "extract"
    /\ PipelineStart
    /\ fnIn = NoLabel
    /\ fnOut = NoResult

Init == InitWith(PairRows)

InitGroup == InitWith(GroupRows)

\* ---------------------------------------------------------------- actions
FirstDataRow == 3

\* if (!worksheet) throw new Error("No worksheet found at index 0"): only the
\* converting component has this check
WorksheetCheckThrows ==
    /\ pc = "extract"
    /\ variant = "xlsConverting"
    /\ worksheets = 0
    /\ pc' = "error"
    /\ error' = "No worksheet found at index 0"
    /\ UNCHANGED <<sheet, rowsData, processed, gi, groupedData, currentSessionKey,
                   academicYears, sortedYears, yi, leftKeys, rightKeys, rows, docSaved,
                   fnIn, fnOut, variant, worksheets>>

\* the basic component calls worksheet.eachRow on undefined: a TypeError,
\* caught by the catch block like any other error
EachRowThrows ==
    /\ pc = "extract"
    /\ variant = "basic"
    /\ worksheets = 0
    /\ pc' = "error"
    /\ error' = "TypeError"
    /\ UNCHANGED <<sheet, rowsData, processed, gi, groupedData, currentSessionKey,
                   academicYears, sortedYears, yi, leftKeys, rightKeys, rows, docSaved,
                   fnIn, fnOut, variant, worksheets>>

\* the extraction taking the rows from the second on
ExtractRowsFromSecond ==
    /\ pc = "extract"
    /\ worksheets > 0
    /\ rowsData' = [i \in 1..(IF Len(sheet) >= FirstDataRow - 1
                              THEN Len(sheet) - FirstDataRow + 2 ELSE 0) |->
                      LET rowValues == sheet[i + FirstDataRow - 2]
                      IN  [sem |-> OrEmpty(rowValues.sem),
                           catAndCourse |-> OrEmpty(rowValues.catAndCourse),
                           grade |-> OrEmpty(rowValues.grade),
                           semHrs |-> OrEmpty(rowValues.semHrs)]]
    /\ pc' = "format"
    /\ UNCHANGED <<sheet, processed, gi, groupedData, currentSessionKey,
                   academicYears, sortedYears, yi, leftKeys, rightKeys, rows, docSaved,
                   fnIn, fnOut, variant, worksheets, error>>

\* step 2: worksheet.eachRow, rows from the third on, each cell `|| ""`
ExtractRows ==
    /\ pc = "extract"
    /\ worksheets > 0
    /\ rowsData' = [i \in 1..(IF Len(sheet) >= FirstDataRow
                              THEN Len(sheet) - FirstDataRow + 1 ELSE 0) |->
                      LET rowValues == sheet[i + FirstDataRow - 1]
                      IN  [sem |-> OrEmpty(rowValues.sem),
                           catAndCourse |-> OrEmpty(rowValues.catAndCourse),
                           grade |-> OrEmpty(rowValues.grade),
                           semHrs |-> OrEmpty(rowValues.semHrs)]]
    /\ pc' = "format"
    /\ UNCHANGED <<sheet, processed, gi, groupedData, currentSessionKey,
                   academicYears, sortedYears, yi, leftKeys, rightKeys, rows, docSaved,
                   fnIn, fnOut, variant, worksheets, error>>

\* step 3: one formatted row
FormatRow(item) ==
    LET formattedSem == formatSession(item.sem)
        split == splitCatNoAndCourse(item.catAndCourse)
    IN  [rawSem |-> item.sem,
         Sem |-> formattedSem,
         Course |-> StrCell(split[2]),
         CatNo |-> StrCell(split[1]),
         Grade |-> item.grade,
         SemHrs |-> item.semHrs]

FormatRows ==
    /\ pc = "format"
    /\ processed' = [i \in 1..Len(rowsData) |-> FormatRow(rowsData[i])]
    /\ gi' = 1
    /\ pc' = "group"
    /\ UNCHANGED <<sheet, rowsData, groupedData, currentSessionKey,
                   academicYears, sortedYears, yi, leftKeys, rightKeys, rows, docSaved,
                   fnIn, fnOut, variant, worksheets, error>>

NoSession == <<"NoSession">>

FooterMarkers == { <<"total number of semester hours earned">>,
                   <<"number of semester hours required for graduation">>,
                   <<"cumulative grade point average">> }

isTrulyBlankRow(row) ==
    LET rawVal == trim(String(OrEmpty(row.rawSem)))
        courseVal == trim(String(OrEmpty(row.Course)))
        gradeVal == trim(String(OrEmpty(row.Grade)))
        hrsVal == trim(String(OrEmpty(row.SemHrs)))
    IN  rawVal = EmptyStr /\ courseVal = EmptyStr /\ gradeVal = EmptyStr
          /\ hrsVal = EmptyStr

\* a key update that forgets the current session on a row without one
NextSessionKeyNoCarry(row, cur) ==
    LET rawVal == trim(String(OrEmpty(row.rawSem)))
    IN  IF rawVal # EmptyStr THEN Key(trim(row.Sem)) ELSE Key(NoSession)

\* the session key a row that is not blank is filed under
NextSessionKey(row, cur) ==
    LET rawVal == trim(String(OrEmpty(row.rawSem)))
        k1 == IF rawVal # EmptyStr THEN Key(trim(row.Sem)) ELSE cur
    IN  IF k1.isNull \/ k1.s = EmptyStr THEN Key(NoSession) ELSE k1

\* the three startsWith tests without toLowerCase
IsFooterCourseCaseSensitive(course) ==
    \E mk \in FooterMarkers : startsWith(trim(course.v), mk)

\* the three startsWith tests on row.Course.toLowerCase().trim()
IsFooterCourse(course) ==
    LET courseLower == trim(toLowerCase(course.v))
    IN  \E mk \in FooterMarkers : startsWith(courseLower, mk)

CourseRecord(row) ==
    [Course |-> row.Course, CatNo |-> row.CatNo, Grade |-> row.Grade,
     SemHrs |-> row.SemHrs]

\* a fold body whose blank row leaves the current session in place
GroupStepNoReset(gd, cur, row) ==
    IF isTrulyBlankRow(row)
    THEN [groupedData |-> gd, currentSessionKey |-> cur]
    ELSE LET key == NextSessionKey(row, cur)
             gd1 == IF ObjHas(gd, key.s) THEN gd ELSE ObjSet(gd, key.s, <<>>)
             gd2 == IF IsFooterCourse(row.Course) THEN gd1
                    ELSE ObjSet(gd1, key.s, Append(ObjGet(gd1, key.s), CourseRecord(row)))
         IN  [groupedData |-> gd2, currentSessionKey |-> key]

\* step 4: the body of processed.forEach for one row
GroupStep(gd, cur, row) ==
    IF isTrulyBlankRow(row)
    THEN [groupedData |-> gd, currentSessionKey |-> Null]
    ELSE LET key == NextSessionKey(row, cur)
             gd1 == IF ObjHas(gd, key.s) THEN gd ELSE ObjSet(gd, key.s, <<>>)
             gd2 == IF IsFooterCourse(row.Course) THEN gd1
                    ELSE ObjSet(gd1, key.s, Append(ObjGet(gd1, key.s), CourseRecord(row)))
         IN  [groupedData |-> gd2, currentSessionKey |-> key]

GroupRow ==
    /\ pc = "group"
    /\ gi <= Len(processed)
    /\ LET r == GroupStep(groupedData, currentSessionKey, processed[gi])
       IN  /\ groupedData' = r.groupedData
           /\ currentSessionKey' = r.currentSessionKey
    /\ gi' = gi + 1
    /\ UNCHANGED <<sheet, pc, rowsData, processed, academicYears, sortedYears,
                   yi, leftKeys, rightKeys, rows, docSaved,
                   fnIn, fnOut, variant, worksheets, error>>

\* step 5: Object.entries(groupedData).forEach, from entry i on
RECURSIVE BuildAcademicYears(_, _, _)
BuildAcademicYears(gd, i, acc) ==
    IF i > Len(gd) THEN acc
    ELSE LET sessionLabel == gd[i].k
             courses == gd[i].v
             year == getAcademicYear(sessionLabel).year
             acc1 == IF ObjHas(acc, year) THEN acc ELSE ObjSet(acc, year, <<>>)
         IN  BuildAcademicYears(gd, i + 1,
                 ObjSet(acc1, year, ObjSet(ObjGet(acc1, year), sessionLabel, courses)))

BuildYears ==
    /\ pc = "group"
    /\ gi > Len(processed)
    /\ academicYears' = BuildAcademicYears(groupedData, 1, <<>>)
    /\ pc' = "table"
    /\ UNCHANGED <<sheet, rowsData, processed, gi, groupedData, currentSessionKey,
                   sortedYears, yi, leftKeys, rightKeys, rows, docSaved,
                   fnIn, fnOut, variant, worksheets, error>>

HeaderCells == << <<"SESSION">>, <<"COURSE">>, <<"CAT. NO.">>, <<"GRADE">>,
                  <<"SEM. HRS.">> >>

TableHeader == [i \in 1..10 |-> multiLineCell(<<HeaderCells[((i - 1) % 5) + 1]>>)]

IsKnownKey(y) == y # Unknown

IsNumericKey(y) == ~parseInt(y).nan

IsLeftoverKey(y) == parseInt(y).nan

\* allYearKeys, numericYears sorted, then the leftover keys
SortedYearKeys(ay) ==
    LET allYearKeys == SelectSeq(ObjKeys(ay), IsKnownKey)
        nums == SelectSeq(allYearKeys, IsNumericKey)
        numericYears == SortNum([i \in 1..Len(nums) |-> parseInt(nums[i]).n])
        leftoverYearKeys == SelectSeq(allYearKeys, IsLeftoverKey)
    IN  [i \in 1..Len(numericYears) |-> NumToString(numericYears[i])]
          \o leftoverYearKeys

\* step 7, first part: the header row and sortedYears
SortYears ==
    /\ pc = "table"
    /\ rows' = <<TableHeader>>
    /\ sortedYears' = SortedYearKeys(academicYears)
    /\ yi' = 1
    /\ pc' = "for"
    /\ UNCHANGED <<sheet, rowsData, processed, gi, groupedData, currentSessionKey,
                   academicYears, leftKeys, rightKeys, docSaved,
                   fnIn, fnOut, variant, worksheets, error>>

Shift(q) == IF Len(q) > 0 THEN Tail(q) ELSE q

\* a loop test that stops as soon as one side is exhausted
LoopContinuesBoth(lks, rks) == Len(lks) > 0 /\ Len(rks) > 0

\* the loop test of while (leftKeys.length > 0 || rightKeys.length > 0)
LoopContinues(lks, rks) == Len(lks) > 0 \/ Len(rks) > 0

leftRegex(s) == RegexTest(s, SemIMonths, <<"i">>)

rightRegex(s) == RegexTest(s, SemIIMonths, <<"i", "i">>)

\* head of for (const yearStr of sortedYears): sessionsObj, leftKeys, rightKeys
StartYear ==
    /\ pc = "for"
    /\ yi <= Len(sortedYears)
    /\ ObjHas(academicYears, sortedYears[yi])
    /\ LET sessionsObj == ObjGet(academicYears, sortedYears[yi])
           sessionLabels == ObjKeys(sessionsObj)
           lk == SelectSeq(sessionLabels, leftRegex)
           rk == SelectSeq(sessionLabels, rightRegex)
       IN  /\ leftKeys' = lk
           /\ rightKeys' = rk
           /\ IF LoopContinues(lk, rk)
              THEN pc' = "while" /\ yi' = yi
              ELSE pc' = "for" /\ yi' = yi + 1
    /\ UNCHANGED <<sheet, rowsData, processed, gi, groupedData, currentSessionKey,
                   academicYears, sortedYears, rows, docSaved,
                   fnIn, fnOut, variant, worksheets, error>>

\* academicYears[yearStr] is undefined: Object.keys(undefined) throws and
\* the catch block reports the error; nothing is built or saved
YearLookupThrows ==
    /\ pc = "for"
    /\ yi <= Len(sortedYears)
    /\ ~ObjHas(academicYears, sortedYears[yi])
    /\ pc' = "error"
    /\ error' = "TypeError"
    /\ UNCHANGED <<sheet, rowsData, processed, gi, groupedData, currentSessionKey,
                   academicYears, sortedYears, yi, leftKeys, rightKeys, rows, docSaved,
                   fnIn, fnOut, variant, worksheets>>

ColumnKeys == <<"Course", "CatNo", "Grade", "SemHrs">>

\* the five cells of one half of a paired row
HalfCells(key, courses) ==
    <<multiLineCell(<<key>>)>>
      \o [c \in 1..4 |-> multiLineCell(getColumnLines(courses, ColumnKeys[c]))]

PairedRow(sessionsObj, lks, rks) ==
    LET leftKey == IF Len(lks) > 0 THEN Head(lks) ELSE EmptyStr
        rightKey == IF Len(rks) > 0 THEN Head(rks) ELSE EmptyStr
        leftCourses == IF leftKey # EmptyStr THEN ObjGet(sessionsObj, leftKey) ELSE <<>>
        rightCourses == IF rightKey # EmptyStr THEN ObjGet(sessionsObj, rightKey) ELSE <<>>
    IN  HalfCells(leftKey, leftCourses) \o HalfCells(rightKey, rightCourses)

SeparatorRow == [i \in 1..10 |-> multiLineCell(<<EmptyStr>>)]

\* a turn that pushes the paired row without the blank row after it
EmittedRowsNoSeparator(sessionsObj, lks, rks) == <<PairedRow(sessionsObj, lks, rks)>>

\* the rows one turn of the while loop pushes
EmittedRows(sessionsObj, lks, rks) == <<PairedRow(sessionsObj, lks, rks), SeparatorRow>>

\* one turn of the while loop
PairStep ==
    /\ pc = "while"
    /\ rows' = rows \o EmittedRows(ObjGet(academicYears, sortedYears[yi]),
                                   leftKeys, rightKeys)
    /\ leftKeys' = Shift(leftKeys)
    /\ rightKeys' = Shift(rightKeys)
    /\ IF LoopContinues(leftKeys', rightKeys')
       THEN pc' = "while" /\ yi' = yi
       ELSE pc' = "for" /\ yi' = yi + 1
    /\ UNCHANGED <<sheet, rowsData, processed, gi, groupedData, currentSessionKey,
                   academicYears, sortedYears, docSaved,
                   fnIn, fnOut, variant, worksheets, error>>

\* the table, the closing paragraphs, Packer.toBlob and saveAs
SaveDocument ==
    /\ pc = "for"
    /\ yi > Len(sortedYears)
    /\ docSaved' = TRUE
    /\ pc' = "done"
    /\ UNCHANGED <<sheet, rowsData, processed, gi, groupedData, currentSessionKey,
                   academicYears, sortedYears, yi, leftKeys, rightKeys, rows,
                   fnIn, fnOut, variant, worksheets, error>>

Next ==
    \/ WorksheetCheckThrows
    \/ EachRowThrows
    \/ ExtractRows
    \/ FormatRows
    \/ GroupRow
    \/ BuildYears
    \/ SortYears
    \/ StartYear
    \/ YearLookupThrows
    \/ PairStep
    \/ SaveDocument

Spec == Init /\ [][Next]_vars

SpecGroup == InitGroup /\ [][Next]_vars

TypeOK == pc \in {"extract", "format", "group", "table", "for", "while", "done", "error",
                   "fn", "fnDone", "session", "formatted", "classified",
                   "split", "splitDone"}

\* ------------------------------------------- getAcademicYear on its own
Spaces(n) == [i \in 1..n |-> " "]

\* the string a label is made of: pre mon - digits gap1 word gap2 tail post
Assemble(L) ==
    L.pre \o <<L.mon, "-">> \o L.digits \o Spaces(L.gap1) \o <<L.word>>
      \o Spaces(L.gap2) \o L.tail \o L.post

LabelParts ==
    [pre : {<<>>, <<"x">>},
     mon : {"Aug", "Dec", "aug", "Jan", "Jun", "JAN", "Jul", "x"},
     digits : { <<"8">>, <<"1", "8">>, <<"0", "5">>, <<"0", "0">>,
                <<"2", "0", "1", "8">>, <<"2", "0", "1", "8", "5">> },
     gap1 : 0..MaxGap,
     word : {"Sem", "SEM", "x"},
     gap2 : 0..MaxGap,
     tail : {<<>>, <<"I">>, <<"I", "I">>, <<"i">>},
     post : {<<>>, <<"x">>}]

InitFn ==
    /\ sheet = <<>>
    /\ variant = "basic"
    /\ worksheets = 1
    /\ pc = "fn"
    /\ PipelineStart
    /\ fnIn \in LabelParts
    /\ fnOut = NoResult

ClassifyLabel ==
    /\ pc = "fn"
    /\ fnOut' = getAcademicYear(Assemble(fnIn))
    /\ pc' = "fnDone"
    /\ UNCHANGED <<sheet, rowsData, processed, gi, groupedData, currentSessionKey,
                   academicYears, sortedYears, yi, leftKeys, rightKeys, rows,
                   docSaved, fnIn, variant, worksheets, error>>

NextFn == ClassifyLabel

SpecFn == InitFn /\ [][NextFn]_vars

\* ------------------------- the pipeline on sessions of 2018, 2019 and 2005
CourseA == RawRow(DateCell(8, 2018), MathCourse, GradeA, Hours3)

CourseB == RawRow(DateCell(1, 2018), BioCourse, GradeA, Hours3)

CourseC == RawRow(DateCell(8, 2019), MathCourse, GradeA, Hours3)

ExampleRows ==
    { CourseA, CourseB, CourseC, BlankRow,
      RawRow(DateCell(8, 2005), MathCourse, GradeA, Hours3) }

\* what rows 1 and 2 may hold: the header, or something that reads as a course
HeadRows == { HeaderRow, CourseC }

\* worksheets of two leading rows and up to MaxRows data rows, or shorter
ExampleSheets ==
    { <<h1, h2>> \o d : h1 \in HeadRows, h2 \in HeadRows,
                         d \in SeqsUpTo(ExampleRows, MaxRows) }
      \cup { <<>>, <<HeaderRow>>, <<CourseC>> }

InitExample ==
    /\ variant \in Variants
    /\ \/ worksheets = 1 /\ sheet \in ExampleSheets
       \/ worksheets = 0 /\ sheet = <<>>
    /\ pc = "extract"
    /\ PipelineStart
    /\ fnIn = NoLabel
    /\ fnOut = NoResult

SpecExample == InitExample /\ [][Next]_vars

\* ------------------- formatSession, and getAcademicYear on what it returns
SessionYears == {1999, 2000, 2005, 2018, 2019}

\* values of the session column: Date objects of every month, strings the
\* Date parser accepts, numbers, and texts it rejects
SessionValues ==
    { DateCell(mon, yr) : mon \in 1..12, yr \in SessionYears }
      \cup { DateText(<<"2018-03-01">>, 3, 2018), DateText(<<"July 4, 2018">>, 7, 2018),
             NumCell(0), NumCell(43313), EmptyCell,
             StrCell(Label("Aug", <<"1", "8">>, <<"I">>)),
             StrCell(Label("Jul", <<"1", "8">>, <<"I">>)),
             StrCell(<<" ", "Fall", " ", "2", "0", "1", "8", " ">>) }

InitSession ==
    /\ sheet = <<>>
    /\ variant \in Variants
    /\ worksheets = 1
    /\ pc = "session"
    /\ PipelineStart
    /\ fnIn \in SessionValues
    /\ fnOut = [label |-> EmptyStr, year |-> EmptyStr, matched |-> "pending"]

\* Sem: formatSession(item.sem)
FormatValue ==
    /\ pc = "session"
    /\ fnOut' = [fnOut EXCEPT !.label = formatSession(fnIn)]
    /\ pc' = "formatted"
    /\ UNCHANGED <<sheet, rowsData, processed, gi, groupedData, currentSessionKey,
                   academicYears, sortedYears, yi, leftKeys, rightKeys, rows,
                   docSaved, fnIn, variant, worksheets, error>>

\* getAcademicYear(sessionKey), the key being the trimmed label
ClassifyFormatted ==
    /\ pc = "formatted"
    /\ LET r == getAcademicYear(trim(fnOut.label))
       IN  fnOut' = [fnOut EXCEPT !.year = r.year, !.matched = r.matched]
    /\ pc' = "classified"
    /\ UNCHANGED <<sheet, rowsData, processed, gi, groupedData, currentSessionKey,
                   academicYears, sortedYears, yi, leftKeys, rightKeys, rows,
                   docSaved, fnIn, variant, worksheets, error>>

NextSession == FormatValue \/ ClassifyFormatted

SpecSession == InitSession /\ [][NextSession]_vars

\* ------------------------------------------ splitCatNoAndCourse on its own
SplitToks == {"1", "0", " ", "\n", "Math"}

\* values of the course column: every text of up to MaxText tokens, numbers
SplitValues ==
    { StrCell(t) : t \in SeqsUpTo(SplitToks, MaxText) } \cup { NumCell(0), NumCell(101) }

InitSplit ==
    /\ sheet = <<>>
    /\ variant = "basic"
    /\ worksheets = 1
    /\ pc = "split"
    /\ PipelineStart
    /\ fnIn \in SplitValues
    /\ fnOut = <<EmptyStr, EmptyStr>>

\* const [catNo, course] = splitCatNoAndCourse(item.catAndCourse)
SplitValue ==
    /\ pc = "split"
    /\ fnOut' = splitCatNoAndCourse(fnIn)
    /\ pc' = "splitDone"
    /\ UNCHANGED <<sheet, rowsData, processed, gi, groupedData, currentSessionKey,
                   academicYears, sortedYears, yi, leftKeys, rightKeys, rows,
                   docSaved, fnIn, variant, worksheets, error>>

NextSplit == SplitValue

SpecSplit == InitSplit /\ [][NextSplit]_vars

\* ----------------------------------------------------------------- claims
AutumnMonths == {"aug", "sep", "oct", "nov", "dec"}

SpringMonths == {"jan", "feb", "mar", "apr", "may", "jun"}

\* the label has the shape "<mon>-<2 to 4 digits><spaces>Sem<spaces>I..."
HasSemShape(L) ==
    /\ Len(L.digits) \in 2..4
    /\ L.gap1 >= 1
    /\ LowerTok(L.word) = "sem"
    /\ Len(L.tail) >= 1
    /\ LowerTok(L.tail[1]) = "i"

IsSemILabel(L) == HasSemShape(L) /\ LowerTok(L.mon) \in AutumnMonths

IsSemIILabel(L) ==
    /\ HasSemShape(L)
    /\ LowerTok(L.mon) \in SpringMonths
    /\ Len(L.tail) >= 2
    /\ LowerTok(L.tail[2]) = "i"

\* C1: getAcademicYear returns year YY and half I for a label matching
\* (Aug|Sep|Oct|Nov|Dec)-YY Sem I, the year YY - 1 and half II for a label
\* matching (Jan|Feb|Mar|Apr|May|Jun)-YY Sem II, and year "Unknown" with no
\* half for every other label.
C1_ClassifiesByPattern ==
    pc = "fnDone" =>
        IF IsSemILabel(fnIn)
        THEN fnOut.year = fnIn.digits /\ fnOut.matched = "SemI"
        ELSE IF IsSemIILabel(fnIn)
        THEN /\ fnOut.year = NumToString(DigitsToNat(fnIn.digits) - 1)
             /\ fnOut.matched = "SemII"
        ELSE fnOut.year = Unknown /\ fnOut.matched = "null"

\* "Jan-18 Sem II" has been classified into the year "17"
C1_Witness ==
    /\ pc = "fnDone"
    /\ Assemble(fnIn) = <<"Jan", "-", "1", "8", " ", "Sem", " ", "I", "I">>
    /\ fnOut = [year |-> <<"1", "7">>, matched |-> "SemII"]

\* ------------------------------------------------- claims about the table
LeftLabel(r) == r[1][1]

RightLabel(r) == r[6][1]

IsSeparator(r) == \A c \in 1..10 : r[c] = <<EmptyStr>>

IsPaired(r) == ~IsSeparator(r)

\* the paired rows of the table, in order
PairedRows == IF rows = <<>> THEN <<>> ELSE SelectSeq(Tail(rows), IsPaired)

TableBuilt == pc \in {"for", "while", "done", "error"} /\ rows # <<>>

BucketLabels == { groupedData[i].k : i \in 1..Len(groupedData) }

TwoDigits(y) == <<DigitToks[(y \div 10) + 1], DigitToks[(y % 10) + 1]>>

AutumnNames == {"Aug", "Sep", "Oct", "Nov", "Dec"}

SpringNames == {"Jan", "Feb", "Mar", "Apr", "May", "Jun"}

IsAutumnOf(label, y) == \E m \in AutumnNames : label = Label(m, TwoDigits(y), <<"I">>)

IsSpringOf(label, y) == \E m \in SpringNames : label = Label(m, TwoDigits(y), <<"I", "I">>)

SameYearEntry(a, b) ==
    \E e \in 1..Len(academicYears) :
        ObjHas(academicYears[e].v, a) /\ ObjHas(academicYears[e].v, b)

SameRow(a, b) ==
    \E i \in 2..Len(rows) : LeftLabel(rows[i]) = a /\ RightLabel(rows[i]) = b

\* C2: for every two-digit year Y, an autumn session "(Aug..Dec)-Y Sem I"
\* and a spring session "(Jan..Jun)-(Y+1) Sem II" of the buckets (each the
\* only session of its term) are filed under the same academic year and stand
\* side by side in one paired row, autumn left and spring right.
C2_AutumnSpringSameRow ==
    pc = "done" =>
        \A y \in 0..98 : \A a \in BucketLabels : \A b \in BucketLabels :
            ( /\ IsAutumnOf(a, y)
              /\ IsSpringOf(b, y + 1)
              /\ \A c \in BucketLabels : IsAutumnOf(c, y) => c = a
              /\ \A c \in BucketLabels : IsSpringOf(c, y + 1) => c = b )
            => (SameYearEntry(a, b) /\ SameRow(a, b))

\* the academic year, as a number, of a label "Mon-<digits> Sem ..."
LabelYearNum(label) ==
    LET nd == Cardinality({ i \in 3..Len(label) :
                              \A j \in 3..i : IsDigit(label[j]) })
        yy == DigitsToNat(SubSeq(label, 3, 2 + nd))
    IN  IF LowerTok(label[1]) \in SpringMonths THEN yy - 1 ELSE yy

RowYearNum(r) ==
    LabelYearNum(IF LeftLabel(r) # EmptyStr THEN LeftLabel(r) ELSE RightLabel(r))

\* the year keys that are not numbers, in the order Object.keys gives them
NonNumericKeys(ks) == SelectSeq(ks, IsLeftoverKey)

\* C3: the paired rows are emitted in ascending numeric order of academic
\* year, and year keys that are not numbers come after all numeric ones, in
\* the order they were encountered.
C3_RowsAscendByYear ==
    TableBuilt =>
        /\ \A i \in 1..Len(PairedRows) : \A j \in 1..Len(PairedRows) :
              i < j => RowYearNum(PairedRows[i]) <= RowYearNum(PairedRows[j])
        /\ \A i \in 1..Len(sortedYears) : \A j \in 1..Len(sortedYears) :
              (i < j /\ parseInt(sortedYears[i]).nan) => parseInt(sortedYears[j]).nan
        /\ NonNumericKeys(sortedYears)
             = NonNumericKeys(SelectSeq(ObjKeys(academicYears), IsKnownKey))

\* the sessions were entered later year first, the rows come earlier year first
C3_Witness ==
    /\ pc = "done"
    /\ Len(sheet) >= 4
    /\ sheet[3].sem = DateCell(8, 2019)
    /\ sheet[4].sem = DateCell(1, 2006)
    /\ Len(PairedRows) = 2
    /\ RowYearNum(PairedRows[1]) = 5
    /\ RowYearNum(PairedRows[2]) = 19

IsSemIText(label) == LowerTok(label[1]) \in AutumnMonths

IsSemIIText(label) == LowerTok(label[1]) \in SpringMonths

\* the session labels filed under the j-th year of sortedYears
YearLabels(j) == ObjKeys(ObjGet(academicYears, sortedYears[j]))

SemILabels(j) == SelectSeq(YearLabels(j), IsSemIText)

SemIILabels(j) == SelectSeq(YearLabels(j), IsSemIIText)

MaxOf(a, b) == IF a >= b THEN a ELSE b

\* the number of paired rows one pass over the j-th year has to give
PassLength(j) == MaxOf(Len(SemILabels(j)), Len(SemIILabels(j)))

RECURSIVE RowsBeforePass(_)
RowsBeforePass(j) == IF j <= 1 THEN 0 ELSE RowsBeforePass(j - 1) + PassLength(j - 1)

\* the passes begun so far, and the rows the pass under way has given
PassesBegun == IF pc = "while" THEN yi ELSE yi - 1

RowsOfPass(j) ==
    IF pc = "while" /\ j = yi
    THEN PassLength(j) - MaxOf(Len(leftKeys), Len(rightKeys))
    ELSE PassLength(j)

\* the k-th slot of a side: the k-th label, or "" with four empty columns
SlotIs(r, first, labels, k) ==
    IF k <= Len(labels)
    THEN r[first] = <<labels[k]>>
    ELSE /\ r[first] = <<EmptyStr>>
         /\ \A c \in 1..4 : r[first + c] = <<>>

C5_SeparatorAfterEveryPair ==
    TableBuilt =>
        /\ rows[1] = TableHeader
        /\ \A i \in 2..Len(rows) : IsSeparator(rows[i]) = (i % 2 = 1)
        /\ Len(rows) % 2 = 1
        /\ Len(SelectSeq(Tail(rows), IsSeparator)) = Len(PairedRows)

\* a finished table with two paired rows and two separators
C5_Witness ==
    /\ pc = "done"
    /\ Len(rows) = 5
    /\ IsPaired(rows[2]) /\ IsSeparator(rows[3])
    /\ IsPaired(rows[4]) /\ IsSeparator(rows[5])

\* the lines a column has to show for a bucket, one per record
ColumnOf(records, c) ==
    [i \in 1..Len(records) |-> trim(String(OrEmpty(records[i][ColumnKeys[c]])))]

\* C6: for a bucket of N course entries emitted into a paired row, the course,
\* category number, grade and hours cells of that half each hold exactly N
\* lines in bucket order, line i of every column belonging to record i, also
\* when a record has an empty category number, grade or hours.
C6_ColumnsAligned ==
    TableBuilt =>
        \A i \in 2..Len(rows) : \A first \in {1, 6} :
            LET label == rows[i][first][1]
            IN  (label # EmptyStr /\ ObjHas(groupedData, label)) =>
                    \A c \in 1..4 :
                        rows[i][first + c] = ColumnOf(ObjGet(groupedData, label), c)

UnknownLabels ==
    IF ObjHas(academicYears, Unknown)
    THEN { l \in BucketLabels : ObjHas(ObjGet(academicYears, Unknown), l) }
    ELSE {}

\* C10: buckets whose academic year is "Unknown" are kept and appended to the
\* table after the rows of all known years, so their courses appear.
C10_UnknownBucketsAppended ==
    pc = "done" =>
        \A l \in UnknownLabels :
            \E i \in 1..Len(PairedRows) :
                /\ l \in {LeftLabel(PairedRows[i]), RightLabel(PairedRows[i])}
                /\ \A j \in 1..Len(PairedRows) :
                      (\A u \in UnknownLabels :
                          u \notin {LeftLabel(PairedRows[j]), RightLabel(PairedRows[j])})
                      => j < i

\* --------------------------------------------- claims about the grouping
CellText(c) == trim(String(c))

\* row j of the input has its session, course, grade and hours all empty
RawBlank(j) ==
    /\ CellText(rowsData[j].sem) = EmptyStr
    /\ CellText(processed[j].Course) = EmptyStr
    /\ CellText(rowsData[j].grade) = EmptyStr
    /\ CellText(rowsData[j].semHrs) = EmptyStr

HasSession(j) == CellText(rowsData[j].sem) # EmptyStr

IsFooterText(course) ==
    LET t == trim(toLowerCase(course.v))
    IN  \/ startsWith(t, <<"total number of semester hours earned">>)
        \/ startsWith(t, <<"number of semester hours required for graduation">>)
        \/ startsWith(t, <<"cumulative grade point average">>)

IsFooterRow(j) == IsFooterText(processed[j].Course)

EntryOf(j) == CourseRecord(processed[j])

\* the fold is about to take row gi
FoldTakesRow == pc = "group" /\ gi <= Len(processed)

OtherBucketsKept(key) ==
    /\ \A i \in 1..Len(groupedData) :
          groupedData[i].k # key =>
              /\ ObjHas(groupedData', groupedData[i].k)
              /\ ObjGet(groupedData', groupedData[i].k) = groupedData[i].v
    /\ \A i \in 1..Len(groupedData') :
          groupedData'[i].k # key => ObjHas(groupedData, groupedData'[i].k)

\* C7: a row whose session, course, grade and hours are all empty is appended
\* to no bucket and creates none, and resets currentSessionKey to null, so
\* the next non-blank row without a session value is filed under "NoSession"
\* and not under the session that was current before the blank row.
C7_BlankRowResets ==
    [][ FoldTakesRow =>
          /\ RawBlank(gi) =>
                (groupedData' = groupedData /\ currentSessionKey' = Null)
          /\ (gi > 1 /\ RawBlank(gi - 1) /\ ~RawBlank(gi) /\ ~HasSession(gi)) =>
                /\ currentSessionKey = Null
                /\ currentSessionKey' = Key(NoSession)
                /\ OtherBucketsKept(NoSession) ]_vars

\* a session, a blank row, then a course without session: the course is in
\* "NoSession" and the session's bucket still has its one course
C7_Witness ==
    /\ pc = "group"
    /\ gi = 4
    /\ HasSession(1) /\ ~IsFooterRow(1)
    /\ RawBlank(2)
    /\ ~RawBlank(3) /\ ~HasSession(3) /\ ~IsFooterRow(3)
    /\ currentSessionKey = Key(NoSession)
    /\ ObjHas(groupedData, NoSession)
    /\ ObjGet(groupedData, NoSession) = <<EntryOf(3)>>
    /\ ObjGet(groupedData, trim(processed[1].Sem)) = <<EntryOf(1)>>

\* the rows the fold has taken so far
RowsTaken ==
    IF pc \in {"extract", "format", "fn", "fnDone"} THEN 0 ELSE gi - 1

\* how often the record x stands in the buckets
TimesInBuckets(x) ==
    Cardinality({ bi \in (1..Len(groupedData)) \X (1..MaxRows + 1) :
                    /\ bi[2] <= Len(groupedData[bi[1]].v)
                    /\ groupedData[bi[1]].v[bi[2]] = x })

\* how many taken rows that are neither blank nor footer rows carry x
TimesInRows(x) ==
    Cardinality({ j \in 1..RowsTaken :
                    ~RawBlank(j) /\ ~IsFooterRow(j) /\ EntryOf(j) = x })

BucketEntries ==
    UNION { { groupedData[b].v[i] : i \in 1..Len(groupedData[b].v) } :
              b \in 1..Len(groupedData) }

\* C8: no bucket holds an entry whose course text, lower-cased and trimmed,
\* starts with one of the three footer markers; every other non-blank row
\* is appended to exactly one bucket exactly once.
C8_FootersExcluded ==
    /\ \A x \in BucketEntries : ~IsFooterText(x.Course)
    /\ \A x \in BucketEntries \cup { EntryOf(j) : j \in 1..RowsTaken } :
          TimesInBuckets(x) = TimesInRows(x)

\* the fold is over: a mixed-case footer row and a course row were taken, the
\* course is in its bucket and the footer is not
C8_Witness ==
    /\ pc = "table"
    /\ Len(processed) = 2
    /\ ~IsFooterRow(1) /\ ~RawBlank(1)
    /\ IsFooterRow(2)
    /\ processed[2].Course.v[1] = "Total Number of Semester Hours Earned"
    /\ BucketEntries = {EntryOf(1)}

\* the session a row without session value inherits: the one of the nearest
\* earlier row with a session, unless a blank row lies in between
CarriedSession(j) ==
    LET marks == { i \in 1..(j - 1) : RawBlank(i) \/ HasSession(i) }
    IN  IF marks = {} THEN NoSession
        ELSE LET m == CHOOSE i \in marks : \A h \in marks : h <= i
             IN  IF RawBlank(m) THEN NoSession ELSE trim(processed[m].Sem)

TargetBucket(j) ==
    IF HasSession(j) THEN trim(processed[j].Sem) ELSE CarriedSession(j)

BucketBefore(key) == IF ObjHas(groupedData, key) THEN ObjGet(groupedData, key) ELSE <<>>

\* C9: a non-blank row with a session value is appended to the bucket of its
\* own canonical label; one without is appended to the bucket of the most
\* recent session set since the last blank boundary, and to "NoSession" when
\* none has been set since the start or since the last blank boundary
\* (footer rows are filed under that key but not appended).
C9_RowGoesToItsSession ==
    [][ (FoldTakesRow /\ ~RawBlank(gi)) =>
          LET key == TargetBucket(gi)
          IN  /\ currentSessionKey' = Key(key)
              /\ ObjHas(groupedData', key)
              /\ ObjGet(groupedData', key)
                   = IF IsFooterRow(gi) THEN BucketBefore(key)
                     ELSE Append(BucketBefore(key), EntryOf(gi))
              /\ OtherBucketsKept(key) ]_vars

\* a session row followed by a row without session: both are in the
\* session's bucket
C9_Witness ==
    /\ pc = "group"
    /\ gi = 3
    /\ HasSession(1) /\ ~HasSession(2) /\ ~RawBlank(2)
    /\ ~IsFooterRow(1) /\ ~IsFooterRow(2)
    /\ ObjKeys(groupedData) = <<trim(processed[1].Sem)>>
    /\ ObjGet(groupedData, trim(processed[1].Sem)) = <<EntryOf(1), EntryOf(2)>>


\* ------------------------------------------------------------------ C11
\* C11: once a worksheet has been obtained, no content of the data rows
\* makes the run abort: whatever the rows hold, the run never ends in the
\* catch block.
C11_NoRowContentAborts == worksheets > 0 => pc # "error"

\* ------------------------------------------------------------------ C12
\* C12: when the workbook has no worksheet at index 0, in either component the
\* run can only stop in the catch block, the error caught is the
\* missing-worksheet error, no row has been extracted or formatted and no
\* document is built or saved.
C12_MissingWorksheetError ==
    worksheets = 0 =>
        /\ pc \in {"extract", "error"}
        /\ pc = "error" => error = "No worksheet found at index 0"
        /\ rowsData = <<>> /\ processed = <<>>
        /\ rows = <<>> /\ ~docSaved


\* ------------------------------------------------------------------ C13
\* the label the rule gives a date in month mon of the year yr
RuleLabel(mon, yr) ==
    Label(MonthAbbr[mon], TwoDigits(yr % 100),
          IF mon \in 1..6 THEN <<"I", "I">> ELSE <<"I">>)

\* C13: for a value that parses as a calendar date formatSession returns
\* "Mon-YY Sem II" when the month is January to June and "Mon-YY Sem I" for
\* every other month, July included; for a value that does not parse as a
\* date it returns the value's string form unchanged.
C13_FormatSessionLabels ==
    pc \in {"formatted", "classified"} =>
        LET date == NewDate(fnIn)
        IN  IF date.valid
            THEN fnOut.label = RuleLabel(date.m, date.n)
            ELSE fnIn.t = "str" /\ fnOut.label = fnIn.v

\* a July date has been formatted as a Sem I label
C13_Witness ==
    /\ pc = "formatted"
    /\ fnIn = DateCell(7, 2018)
    /\ fnOut.label = <<"Jul", "-", "1", "8", " ", "Sem", " ", "I">>

\* ------------------------------------------------------------------ C19
\* C19: for every session value that parses as a calendar date, in any month,
\* July included, getAcademicYear classifies the label formatSession made of
\* it into a known academic year, with the half its Sem I / Sem II suffix
\* names.
C19_DateSessionsClassified ==
    (pc = "classified" /\ NewDate(fnIn).valid) =>
        /\ fnOut.year # Unknown
        /\ fnOut.matched = (IF fnOut.label[Len(fnOut.label) - 1] = "I"
                            THEN "SemII" ELSE "SemI")

\* ------------------------------------------------------------------ C14
\* the text of the cell, trimmed; a missing value (empty, 0) has no text
TrimmedInput(c) ==
    IF ~Truthy(c) THEN EmptyStr
    ELSE trim(IF c.t = "num" THEN NumToString(c.n) ELSE c.v)

\* the number of digits the text begins with
LeadingDigits(t) == Cardinality({ i \in 1..Len(t) : \A j \in 1..i : IsDigit(t[j]) })

\* C14: splitCatNoAndCourse returns (digits, remainder) when the trimmed
\* input starts with one or more digits followed by white space, and
\* ("", the full trimmed input) in every other case.
C14_SplitsNumericPrefix ==
    pc = "splitDone" =>
        LET t == TrimmedInput(fnIn)
            nd == LeadingDigits(t)
        IN  IF nd >= 1 /\ nd < Len(t) /\ IsSpace(t[nd + 1])
            THEN fnOut = <<SubSeq(t, 1, nd), trim(SubSeq(t, nd + 1, Len(t)))>>
            ELSE fnOut = <<EmptyStr, t>>


\* ------------------------------------------------------------------ C15
Aug18 == Label("Aug", <<"1", "8">>, <<"I">>)

Jan18 == Label("Jan", <<"1", "8">>, <<"I", "I">>)

Aug19 == Label("Aug", <<"1", "9">>, <<"I">>)

\* the buckets are "Aug-18 Sem I", "Jan-18 Sem II" and "Aug-19 Sem I", of one
\* course each
ThreeBuckets ==
    /\ BucketLabels = {Aug18, Jan18, Aug19}
    /\ \A i \in 1..Len(groupedData) : Len(groupedData[i].v) = 1

\* C15 as stated: given these three buckets the pairer emits exactly 2 paired
\* rows (year 18, then year 19) and 2 separator rows.
C15_TwoPairedRows ==
    (pc = "done" /\ ThreeBuckets) =>
        /\ Len(PairedRows) = 2
        /\ Len(SelectSeq(Tail(rows), IsSeparator)) = 2
        /\ RowYearNum(PairedRows[1]) = 18
        /\ RowYearNum(PairedRows[2]) = 19

\* r is a paired row with these labels and one course line on each side
\* that has a label
PairOf(r, left, right) ==
    /\ IsPaired(r)
    /\ LeftLabel(r) = left /\ RightLabel(r) = right
    /\ Len(r[2]) = (IF left = EmptyStr THEN 0 ELSE 1)
    /\ Len(r[7]) = (IF right = EmptyStr THEN 0 ELSE 1)

\* C15 amended: given these three buckets the pairer emits exactly 3 paired
\* rows, each followed by a separator row: year 17 with "Jan-18 Sem II"
\* alone on the right, year 18 with "Aug-18 Sem I" alone on the left, year 19
\* with "Aug-19 Sem I" alone on the left, in that order.
C15_ThreePairedRows ==
    (pc = "done" /\ ThreeBuckets) =>
        /\ Len(rows) = 7
        /\ PairOf(rows[2], EmptyStr, Jan18)
        /\ PairOf(rows[4], Aug18, EmptyStr)
        /\ PairOf(rows[6], Aug19, EmptyStr)
        /\ IsSeparator(rows[3]) /\ IsSeparator(rows[5]) /\ IsSeparator(rows[7])

\* the three buckets, met in the order of the claim, have been paired
C15_Witness ==
    /\ pc = "done"
    /\ ThreeBuckets
    /\ ObjKeys(groupedData) = <<Aug18, Jan18, Aug19>>
    /\ Len(PairedRows) = 3

\* ------------------------------------------------------------------ C16
AfterExtraction == worksheets > 0 /\ pc # "extract"

AfterBuildYears == pc \in {"table", "for", "while", "done"} \/ (pc = "error" /\ worksheets > 0)

\* the worksheet's rows from the third on are course A of August 2018, a blank
\* row, course B of January 2018
ExampleInput ==
    /\ Len(sheet) = 5
    /\ <<sheet[3], sheet[4], sheet[5]>> = <<CourseA, BlankRow, CourseB>>

\* C16: the data rows are the rows from the third on, whatever rows 1 and 2
\* hold; a Sem I and a Sem II session with the same two-digit calendar year
\* are filed under different academic years and never share a paired row;
\* "Aug-18" with course A, a blank row, "Jan-18" with course B give two
\* buckets of one course, under the years "18" and "17".
C16_ThirdRowAndJanDecrement ==
    /\ AfterExtraction =>
          /\ Len(rowsData) = MaxOf(Len(sheet) - 2, 0)
          /\ \A i \in 1..Len(rowsData) :
                rowsData[i] = [sem |-> OrEmpty(sheet[i + 2].sem),
                               catAndCourse |-> OrEmpty(sheet[i + 2].catAndCourse),
                               grade |-> OrEmpty(sheet[i + 2].grade),
                               semHrs |-> OrEmpty(sheet[i + 2].semHrs)]
    /\ AfterBuildYears =>
          /\ \A y \in 0..99 : \A a \in BucketLabels : \A b \in BucketLabels :
                (IsAutumnOf(a, y) /\ IsSpringOf(b, y))
                    => (~SameYearEntry(a, b) /\ ~SameRow(a, b))
          /\ ExampleInput =>
                /\ ObjKeys(groupedData) = <<Aug18, Jan18>>
                /\ Len(ObjGet(groupedData, Aug18)) = 1
                /\ Len(ObjGet(groupedData, Jan18)) = 1
                /\ ObjKeys(academicYears) = <<<<"1", "7">>, <<"1", "8">>>>
                /\ ObjKeys(ObjGet(academicYears, <<"1", "8">>)) = <<Aug18>>
                /\ ObjKeys(ObjGet(academicYears, <<"1", "7">>)) = <<Jan18>>

\* the example, under two leading rows that read as courses, has been saved
\* with the two sessions in two paired rows
C16_Witness ==
    /\ pc = "done"
    /\ ExampleInput
    /\ sheet[1] = CourseC /\ sheet[2] = CourseC
    /\ Len(rows) = 5
    /\ RightLabel(rows[2]) = Jan18 /\ LeftLabel(rows[2]) = EmptyStr
    /\ LeftLabel(rows[4]) = Aug18 /\ RightLabel(rows[4]) = EmptyStr


\* ------------------------------------------------------------------ C17
\* the sessions that were current when a blank boundary row among the rows
\* before row j was met
ClosedSessions(j) ==
    { TargetBucket(b - 1) : b \in { i \in 2..(j - 1) : RawBlank(i) /\ ~RawBlank(i - 1) } }

\* C17 as stated: once a blank boundary row has reset currentSessionKey, the
\* bucket of the session that was current before it receives no entry from
\* any later row, a row that carries the same session label included.
C17_BucketClosedAtBoundary ==
    [][ FoldTakesRow =>
          \A key \in ClosedSessions(gi) :
              ObjGet(groupedData', key) = ObjGet(groupedData, key) ]_vars

\* the blank boundary rows before row j at which this session was current
BoundariesOf(j, key) ==
    { b \in 2..(j - 1) : RawBlank(b) /\ ~RawBlank(b - 1) /\ TargetBucket(b - 1) = key }

\* after such a boundary a row has carried the label again, and row j is that
\* row or continues it: no blank row and no other session value in between
ReopenedFor(j, key) ==
    \E b \in BoundariesOf(j, key) : \E r \in (b + 1)..j :
        /\ HasSession(r) /\ trim(processed[r].Sem) = key
        /\ \A x \in (r + 1)..j : ~RawBlank(x) /\ ~HasSession(x)

\* row j has no session value and none has been set since a boundary
NoSessionInForce(j) ==
    \E b \in 1..(j - 1) : RawBlank(b) /\ \A x \in (b + 1)..j : ~HasSession(x)

\* C17 amended: once a blank boundary row has reset currentSessionKey, the
\* bucket of the session that was current before it receives no entry from a
\* later row until a later row carries the same session label again; that
\* row and the rows without session value that continue it are appended to
\* the bucket (and "NoSession" receives the rows without session value that
\* come while no session has been set since a boundary).
C17_BucketReopenedOnlyBySameLabel ==
    [][ FoldTakesRow =>
          \A key \in ClosedSessions(gi) :
              \/ ObjGet(groupedData', key) = ObjGet(groupedData, key)
              \/ /\ ReopenedFor(gi, key) \/ (key = NoSession /\ NoSessionInForce(gi))
                 /\ ObjGet(groupedData', key)
                      = Append(ObjGet(groupedData, key), EntryOf(gi)) ]_vars

\* a session row, a blank row, a row with the same session again: the bucket
\* closed by the blank row holds both courses
C17_Witness ==
    /\ pc = "group"
    /\ gi = 4
    /\ HasSession(1) /\ ~IsFooterRow(1)
    /\ RawBlank(2)
    /\ HasSession(3) /\ ~IsFooterRow(3)
    /\ trim(processed[3].Sem) = trim(processed[1].Sem)
    /\ ClosedSessions(3) = {trim(processed[1].Sem)}
    /\ ObjGet(groupedData, trim(processed[1].Sem)) = <<EntryOf(1), EntryOf(3)>>

\* ------------------------------------------------------------------ C18
\* the labels filed under a year other than "Unknown"
KnownLabels ==
    { l \in BucketLabels :
        \E e \in 1..Len(academicYears) :
            academicYears[e].k # Unknown /\ ObjHas(academicYears[e].v, l) }

\* the places of the table where a label stands: row and side
PlacesOf(l) ==
    { <<i, "left">> : i \in { j \in 2..Len(rows) : LeftLabel(rows[j]) = l } }
      \cup { <<i, "right">> : i \in { j \in 2..Len(rows) : RightLabel(rows[j]) = l } }

\* C18: the list of years the pairing loop walks through has each known year
\* key of academicYears exactly once and no key that academicYears lacks, and
\* when the run is over each bucket of a known year stands in exactly one
\* paired row, on exactly one side.
C18_EachKnownBucketOnce ==
    /\ (worksheets > 0 /\ pc \in {"for", "while", "done", "error"}) =>
          /\ \A i \in 1..Len(sortedYears) : \A j \in 1..Len(sortedYears) :
                sortedYears[i] = sortedYears[j] => i = j
          /\ \A i \in 1..Len(sortedYears) : ObjHas(academicYears, sortedYears[i])
          /\ \A e \in 1..Len(academicYears) :
                academicYears[e].k # Unknown =>
                    \E i \in 1..Len(sortedYears) : sortedYears[i] = academicYears[e].k
    /\ (worksheets > 0 /\ pc \in {"done", "error"}) =>
          \A l \in KnownLabels : Cardinality(PlacesOf(l)) = 1

====
